---- MODULE Spec2Model ----
(***************************************************************************)
(* Model of the pagination servers of 0x00-pagination and of the locale    *)
(* selection of 0x02-i18n/7-app.py:                                        *)
(*   0-simple_helper_function.py     index_range                           *)
(*   1-simple_pagination.py          Server.dataset, Server.get_page       *)
(*   2-hypermedia_pagination.py      Server.get_page, Server.get_hyper     *)
(*   3-hypermedia_del_pagination.py  Server.indexed_dataset,               *)
(*                                   Server.get_hyper_index                *)
(*   7-app.py                        get_user, before_request, get_locale  *)
(*                                                                         *)
(* Python values are modelled as follows.                                  *)
(*   Optional[T]   : the empty set is None, {x} is the value x.            *)
(*   an argument   : a record [t |-> type name, v |-> integer]; only       *)
(*                   t = "int" passes isinstance(., int).                  *)
(*   a CSV row     : a string; the file is a sequence of rows, the first   *)
(*                   row being the header.                                 *)
(*   a call result : [exc |-> exception name or "", value |-> the value    *)
(*                   returned when exc = ""].                              *)
(***************************************************************************)
EXTENDS Integers, Sequences, FiniteSets

VARIABLES
    file,               \* content of DATA_FILE on disk: None (no file) or {rows}
    __dataset,          \* Server.__dataset: None or {rows without the header}
    __indexed_dataset,  \* Server.__indexed_dataset: None or {key -> row}
    call,               \* the last call made on the server and its arguments
    result,             \* what that call returned or raised
    first_read,         \* history: the file as it was when first read, as Optional
    reread,             \* history: TRUE once the file was read a second time
    cursor,             \* paging client: the index to request next, as Optional
    visited,            \* paging client: the rows collected so far
    request,            \* 7-app.py: the HTTP request being served
    g_user              \* 7-app.py: flask.g.user, None or {user}

vars == <<file, __dataset, __indexed_dataset, call, result,
          first_read, reread, cursor, visited, request, g_user>>

\* the state of the web application, which no pagination call touches
web == <<request, g_user>>

\* ------------------------------------------------------------------ bounds

MaxLines == 4        \* lines of the CSV file, header included
MaxPage == 4         \* largest page / page_size / index argument tried
MaxKeys == 4         \* data rows of the file behind the index map

\* ------------------------------------------------------------ Python values

None == {}
Some(x) == {x}
Get(o) == CHOOSE x \in o : TRUE

Min(a, b) == IF a < b THEN a ELSE b
Max(a, b) == IF a > b THEN a ELSE b

\* list[start:end] with integer bounds (negative bounds count from the end,
\* both are clamped to the list)
PySlice(s, start, end) ==
    LET n == Len(s)
        norm(i) == IF i < 0 THEN Max(i + n, 0) ELSE Min(i, n)
        lo == norm(start)
        hi == norm(end)
    IN  IF lo >= hi THEN <<>> ELSE SubSeq(s, lo + 1, hi)

\* list[start:]
PySliceFrom(s, start) == PySlice(s, start, Len(s))

floor_div(a, b) == a \div b

\* math.ceil(a / b) for integers a >= 0, b > 0 in the range where the float
\* quotient is exact
ceil_div(a, b) == IF a % b = 0 THEN a \div b ELSE (a \div b) + 1

PyInt(n) == [t |-> "int", v |-> n]
IsInt(a) == a.t = "int"

Raise(e, ds) == [exc |-> e, value |-> <<>>, ds |-> ds, read |-> FALSE]

\* --------------------------------------------------------------- index_range

index_range_helper_inclusive(page, page_size) ==
    <<(page - 1) * page_size, page * page_size - 1>>

\* 0-simple_helper_function.py
index_range_helper(page, page_size) ==
    <<(page - 1) * page_size, page * page_size>>

index_range_overlapping(page, page_size) ==
    <<(page - 1) * page_size, page * page_size + 1>>

index_range_zero_based(page, page_size) ==
    <<page * page_size, (page + 1) * page_size>>

\* 2-hypermedia_pagination.py (the same in 1-simple_pagination.py)
index_range(page, page_size) ==
    <<(page - 1) * page_size, page * page_size>>

\* ------------------------------------------------------------ Server.dataset

dataset_uncached(f, ds) ==
    IF f = None
    THEN Raise("FileNotFoundError", ds)
    ELSE [exc |-> "", value |-> PySliceFrom(Get(f), 1),
          ds |-> Some(PySliceFrom(Get(f), 1)), read |-> TRUE]

\* Returns the rows and the new value of self.__dataset; read tells whether
\* the file was opened and read.
dataset(f, ds) ==
    IF ds = None
    THEN IF f = None
         THEN Raise("FileNotFoundError", ds)
         ELSE [exc |-> "", value |-> PySliceFrom(Get(f), 1),
               ds |-> Some(PySliceFrom(Get(f), 1)), read |-> TRUE]
    ELSE [exc |-> "", value |-> Get(ds), ds |-> ds, read |-> FALSE]

\* ----------------------------------------------------------- Server.get_page

valid_args_nonneg(page, page_size) ==
    /\ IsInt(page) /\ IsInt(page_size)
    /\ page.v >= 0 /\ page_size.v >= 0

\* the two assert statements of get_page
valid_args(page, page_size) ==
    /\ IsInt(page) /\ IsInt(page_size)
    /\ page.v > 0 /\ page_size.v > 0

get_page(f, ds, page, page_size) ==
    IF ~valid_args(page, page_size)
    THEN Raise("AssertionError", ds)
    ELSE LET r == index_range(page.v, page_size.v)
             d == dataset(f, ds)
         IN  IF d.exc # ""
             THEN d
             ELSE [d EXCEPT !.value = PySlice(d.value, r[1], r[2])]

\* ---------------------------------------------------------- Server.get_hyper

hyper_page_size_requested(records, page_size) == page_size

\* 'page_size': len(dataset_records)
hyper_page_size(records, page_size) == Len(records)

hyper_next_page_strict(page, total_pages) ==
    IF (page + 1) < total_pages THEN Some(page + 1) ELSE None

\* 'next_page': page + 1 if (page + 1) <= total_pages else None
hyper_next_page(page, total_pages) ==
    IF (page + 1) <= total_pages THEN Some(page + 1) ELSE None

hyper_prev_page_zero(page) ==
    IF (page - 1) >= 0 THEN Some(page - 1) ELSE None

\* 'prev_page': page - 1 if (page - 1) > 0 else None
hyper_prev_page(page) ==
    IF (page - 1) > 0 THEN Some(page - 1) ELSE None

get_hyper(f, ds, page, page_size) ==
    LET p == get_page(f, ds, page, page_size)
    IN  IF p.exc # ""
        THEN p
        ELSE IF page_size.v = 0
        THEN [p EXCEPT !.exc = "ZeroDivisionError", !.value = <<>>]
        ELSE LET total_pages == ceil_div(Len(Get(p.ds)), page_size.v)
             IN  [p EXCEPT !.value =
                    [page_size   |-> hyper_page_size(p.value, page_size.v),
                     page        |-> page.v,
                     data        |-> p.value,
                     next_page   |-> hyper_next_page(page.v, total_pages),
                     prev_page   |-> hyper_prev_page(page.v),
                     total_pages |-> total_pages]]

\* ------------------------------------------------------------------- inputs

RowValues == {"A", "B"}

SeqsUpTo(S, n) == UNION {[1..k -> S] : k \in 0..n}

Files == {None} \cup {Some(s) : s \in SeqsUpTo(RowValues, MaxLines)}

ArgValues ==
    {PyInt(n) : n \in -1..MaxPage}
        \cup {[t |-> "float", v |-> 1], [t |-> "str", v |-> 1],
              [t |-> "NoneType", v |-> 0]}

NoCall == [op |-> "none"]
NoRequest == [locale_arg |-> None, login_as |-> None, header_locale |-> None,
              accept_languages |-> <<>>]
NoResult == [exc |-> "", value |-> <<>>]

\* ------------------------------------------------- offset pagination (Spec)

Init ==
    /\ file \in Files
    /\ __dataset = None
    /\ __indexed_dataset = None
    /\ call = NoCall
    /\ result = NoResult
    /\ first_read = None
    /\ reread = FALSE
    /\ cursor = None
    /\ visited = <<>>
    /\ request = NoRequest
    /\ g_user = None

\* What a call leaves behind: its result, the server's cache, and the history
\* of file reads.
Returned(r) ==
    /\ result' = [exc |-> r.exc, value |-> r.value]
    /\ __dataset' = r.ds
    /\ first_read' = IF first_read = None /\ r.read THEN file ELSE first_read
    /\ reread' = (reread \/ (first_read # None /\ r.read))
    /\ UNCHANGED web

IndexRange(page, page_size) ==
    /\ call' = [op |-> "index_range", page |-> PyInt(page), page_size |-> PyInt(page_size)]
    /\ result' = [exc |-> "", value |-> index_range_helper(page, page_size)]
    /\ UNCHANGED <<file, __dataset, __indexed_dataset, first_read, reread,
                   cursor, visited>>
    /\ UNCHANGED web

GetPage(page, page_size) ==
    /\ call' = [op |-> "get_page", page |-> page, page_size |-> page_size]
    /\ Returned(get_page(file, __dataset, page, page_size))
    /\ UNCHANGED <<file, __indexed_dataset, cursor, visited>>

GetHyper(page, page_size) ==
    /\ call' = [op |-> "get_hyper", page |-> page, page_size |-> page_size]
    /\ Returned(get_hyper(file, __dataset, page, page_size))
    /\ UNCHANGED <<file, __indexed_dataset, cursor, visited>>

Next ==
    \/ \E page \in -1..MaxPage, page_size \in -1..MaxPage :
            IndexRange(page, page_size)
    \/ \E page \in ArgValues, page_size \in ArgValues : GetPage(page, page_size)
    \/ \E page \in ArgValues, page_size \in ArgValues : GetHyper(page, page_size)

Spec == Init /\ [][Next]_vars

\* ------------------------------------------- the memoized load (SpecLoad)

Dataset ==
    /\ call' = [op |-> "dataset"]
    /\ Returned(dataset(file, __dataset))
    /\ UNCHANGED <<file, __indexed_dataset, cursor, visited>>

\* The file is replaced, rewritten or removed behind the server's back.
WriteFile(f) ==
    /\ f # file
    /\ file' = f
    /\ call' = [op |-> "write_file"]
    /\ UNCHANGED <<__dataset, __indexed_dataset, result, first_read, reread,
                   cursor, visited>>
    /\ UNCHANGED web

NextLoad ==
    \/ Dataset
    \/ \E f \in Files : WriteFile(f)

SpecLoad == Init /\ [][NextLoad]_vars

\* ------------------------------- deletion-resilient pagination (SpecIndex)

TruncateLimit == 1000

\* The dict {i: rows[i] for i in range(len(rows))}
IndexMapOf(rows) == [i \in 0..(Len(rows) - 1) |-> rows[i + 1]]

indexed_dataset_rebuilt(f, ds, idx) ==
    LET d == dataset(f, ds)
    IN  IF d.exc # ""
        THEN [exc |-> d.exc, value |-> <<>>, ds |-> d.ds, read |-> d.read,
              idx |-> idx]
        ELSE LET truncated_dataset == PySlice(d.value, 0, TruncateLimit)
             IN  [exc |-> "", value |-> IndexMapOf(truncated_dataset),
                  ds |-> d.ds, read |-> d.read,
                  idx |-> Some(IndexMapOf(truncated_dataset))]

\* Server.indexed_dataset: returns the index map, the new value of
\* self.__indexed_dataset and of self.__dataset.
indexed_dataset(f, ds, idx) ==
    IF idx = None
    THEN LET d == dataset(f, ds)
         IN  IF d.exc # ""
             THEN [exc |-> d.exc, value |-> <<>>, ds |-> d.ds, read |-> d.read,
                   idx |-> idx]
             ELSE LET truncated_dataset == PySlice(d.value, 0, TruncateLimit)
                  IN  [exc |-> "", value |-> IndexMapOf(truncated_dataset),
                       ds |-> d.ds, read |-> d.read,
                       idx |-> Some(IndexMapOf(truncated_dataset))]
    ELSE [exc |-> "", value |-> Get(idx), ds |-> ds, read |-> FALSE, idx |-> idx]

\* Server.get_hyper_index: the body is a docstring and pass, so the call
\* returns None whatever its arguments and touches nothing.
get_hyper_index(f, ds, idx, index, page_size) ==
    [exc |-> "", value |-> None, ds |-> ds, read |-> FALSE, idx |-> idx]

\* del m[k]
DictDel(m, k) == [j \in (DOMAIN m) \ {k} |-> m[j]]

RowNames == <<"A", "B", "C", "D", "E", "F">>

\* A header row followed by k distinct rows.
IndexFiles == {Some(<<"H">> \o SubSeq(RowNames, 1, k)) : k \in 0..MaxKeys}

InitIndex ==
    /\ file \in IndexFiles
    /\ __dataset = None
    /\ __indexed_dataset = None
    /\ call = NoCall
    /\ result = NoResult
    /\ first_read = None
    /\ reread = FALSE
    /\ cursor = Some(0)
    /\ visited = <<>>
    /\ request = NoRequest
    /\ g_user = None

IndexedDataset ==
    LET r == indexed_dataset(file, __dataset, __indexed_dataset)
    IN  /\ call' = [op |-> "indexed_dataset"]
        /\ Returned(r)
        /\ __indexed_dataset' = r.idx
        /\ UNCHANGED <<file, cursor, visited>>

\* A record is deleted: del server.indexed_dataset()[k]
DeleteKey(k) ==
    /\ __indexed_dataset # None
    /\ k \in DOMAIN Get(__indexed_dataset)
    /\ __indexed_dataset' = Some(DictDel(Get(__indexed_dataset), k))
    /\ call' = [op |-> "delete", key |-> k]
    /\ UNCHANGED <<file, __dataset, result, first_read, reread, cursor, visited>>
    /\ UNCHANGED web

GetHyperIndex(index, page_size) ==
    LET r == get_hyper_index(file, __dataset, __indexed_dataset, index, page_size)
    IN  /\ call' = [op |-> "get_hyper_index", index |-> index,
                    page_size |-> page_size]
        /\ Returned(r)
        /\ __indexed_dataset' = r.idx
        /\ UNCHANGED <<file, cursor, visited>>

\* The paging client: it asks for the page at its cursor, appends the page's
\* data to what it has collected and moves its cursor to the page's
\* next_index. A result that is no page descriptor leaves it where it is.
PageStep(page_size) ==
    /\ cursor # None
    /\ LET r == get_hyper_index(file, __dataset, __indexed_dataset,
                                PyInt(Get(cursor)), page_size)
       IN  /\ call' = [op |-> "page_step", index |-> PyInt(Get(cursor)),
                       page_size |-> page_size]
           /\ Returned(r)
           /\ __indexed_dataset' = r.idx
           /\ IF r.exc = "" /\ r.value # None
              THEN /\ cursor' = Some(Get(r.value).next_index)
                   /\ visited' = visited \o Get(r.value).data
              ELSE UNCHANGED <<cursor, visited>>
           /\ UNCHANGED file

NextIndex ==
    \/ IndexedDataset
    \/ \E k \in 0..MaxKeys : DeleteKey(k)
    \/ \E index \in ArgValues, page_size \in ArgValues :
            GetHyperIndex(index, page_size)
    \/ \E page_size \in 1..MaxPage : PageStep(PyInt(page_size))

SpecIndex == InitIndex /\ [][NextIndex]_vars

\* --------------------------------- the cached index map (SpecIndexMap)

\* A header row followed by more rows than the index map keeps.
LongFile ==
    <<"H">> \o [i \in 1..(TruncateLimit + 2) |-> RowNames[(i % Len(RowNames)) + 1]]

InitIndexMap ==
    /\ file \in IndexFiles \cup {Some(LongFile)}
    /\ __dataset = None
    /\ __indexed_dataset = None
    /\ call = NoCall
    /\ result = NoResult
    /\ first_read = None
    /\ reread = FALSE
    /\ cursor = None
    /\ visited = <<>>
    /\ request = NoRequest
    /\ g_user = None

NextIndexMap ==
    \/ Dataset
    \/ IndexedDataset
    \/ \E k \in 0..MaxKeys : DeleteKey(k)

SpecIndexMap == InitIndexMap /\ [][NextIndexMap]_vars

\* ------------------------------- locale selection of 7-app.py (SpecLocale)

\* Config.LANGUAGES
LANGUAGES == <<"en", "fr">>

\* x in l, for a list l
InList(x, l) == \E i \in 1..Len(l) : l[i] = x

\* The users table; a locale is None or {code}.
users ==
    [id \in 1..4 |->
        CASE id = 1 -> [name |-> "Balou", locale |-> Some("fr"),
                        timezone |-> "Europe/Paris"]
          [] id = 2 -> [name |-> "Beyonce", locale |-> Some("en"),
                        timezone |-> "US/Central"]
          [] id = 3 -> [name |-> "Spock", locale |-> Some("kg"),
                        timezone |-> "Vulcan"]
          [] id = 4 -> [name |-> "Teletubby", locale |-> None,
                        timezone |-> "Europe/London"]]

\* d.get(k)
DictGet(d, k) == IF k \in DOMAIN d THEN Some(d[k]) ELSE None

Digits == <<"0", "1", "2", "3", "4", "5", "6", "7", "8", "9">>

\* int(s) for a string of one character or a string that is no number:
\* None stands for the ValueError int() raises.
PyIntOfString(s) ==
    IF \E n \in 0..9 : Digits[n + 1] = s
    THEN Some(CHOOSE n \in 0..9 : Digits[n + 1] = s)
    ELSE None

\* get_user: the user of the login_as query parameter.
get_user(req) ==
    LET login_id == req.login_as
    IN  IF login_id # None /\ Get(login_id) # ""
        THEN IF PyIntOfString(Get(login_id)) = None
             THEN [exc |-> "ValueError", value |-> None]
             ELSE [exc |-> "", value |-> DictGet(users, Get(PyIntOfString(Get(login_id))))]
        ELSE [exc |-> "", value |-> None]

\* request.accept_languages.best_match(supported): accepted is the
\* Accept-Language header's languages, best quality first; the result is the
\* supported language the client ranks highest, None when it accepts none.
best_match(accepted, supported) ==
    IF \E i \in 1..Len(accepted) : InList(accepted[i], supported)
    THEN Some(accepted[CHOOSE i \in 1..Len(accepted) :
                /\ InList(accepted[i], supported)
                /\ \A j \in 1..(i - 1) : ~InList(accepted[j], supported)])
    ELSE None

user_locale_unchecked(user) ==
    IF user # None THEN Get(user).locale ELSE None

\* The "locale from user settings" block of get_locale: the locale it returns,
\* None when it falls through.
user_locale(user) ==
    IF user # None
    THEN LET locale == Get(user).locale
         IN  IF locale # None /\ InList(Get(locale), LANGUAGES)
             THEN locale
             ELSE None
    ELSE None

\* get_locale: the locale code returned, as None or {code}.
get_locale(req, user) ==
    IF req.locale_arg # None /\ InList(Get(req.locale_arg), LANGUAGES)
    THEN req.locale_arg
    ELSE IF user_locale(user) # None
    THEN user_locale(user)
    ELSE IF req.header_locale # None /\ InList(Get(req.header_locale), LANGUAGES)
    THEN req.header_locale
    ELSE best_match(req.accept_languages, LANGUAGES)

Requests ==
    [locale_arg : {None, Some("fr"), Some("kg"), Some("")},
     login_as : {None} \cup {Some(x) : x \in {"", "1", "2", "3", "4", "5", "abc"}},
     header_locale : {None, Some("en"), Some("de")},
     accept_languages : {<<>>, <<"fr">>, <<"de">>, <<"de", "en">>, <<"en", "fr">>}]

\* The application is up and has served nothing; it has no pagination server.
InitLocale ==
    /\ file = None
    /\ __dataset = None
    /\ __indexed_dataset = None
    /\ call = NoCall
    /\ result = NoResult
    /\ first_read = None
    /\ reread = FALSE
    /\ cursor = None
    /\ visited = <<>>
    /\ request = NoRequest
    /\ g_user = None

\* A request arrives once the one before it is served or has failed; flask.g
\* starts afresh.
NewRequest(req) ==
    /\ \/ call.op \in {"none", "get_locale"}
       \/ (call.op = "before_request" /\ result.exc # "")
    /\ request' = req
    /\ g_user' = None
    /\ call' = [op |-> "request"]
    /\ result' = NoResult
    /\ UNCHANGED <<file, __dataset, __indexed_dataset, first_read, reread,
                   cursor, visited>>

\* before_request: g.user = get_user(); an exception of get_user ends the
\* request.
BeforeRequest ==
    /\ call.op = "request"
    /\ LET u == get_user(request)
       IN  /\ g_user' = IF u.exc = "" THEN u.value ELSE g_user
           /\ result' = [exc |-> u.exc, value |-> <<>>]
    /\ call' = [op |-> "before_request"]
    /\ UNCHANGED <<file, __dataset, __indexed_dataset, first_read, reread,
                   cursor, visited, request>>

\* The locale selector runs while the page is rendered.
GetLocale ==
    /\ call.op = "before_request"
    /\ result.exc = ""
    /\ call' = [op |-> "get_locale"]
    /\ result' = [exc |-> "", value |-> get_locale(request, g_user)]
    /\ UNCHANGED <<file, __dataset, __indexed_dataset, first_read, reread,
                   cursor, visited, request, g_user>>

NextLocale ==
    \/ \E req \in Requests : NewRequest(req)
    \/ BeforeRequest
    \/ GetLocale

SpecLocale == InitLocale /\ [][NextLocale]_vars

\* ------------------------------------------------------ claims: get_page

IsGetPage == call.op = "get_page"
IsGetHyper == call.op = "get_hyper"

\* page and page_size are integers >= 1
CallArgsValid ==
    /\ call.page.t = "int" /\ call.page_size.t = "int"
    /\ call.page.v >= 1 /\ call.page_size.v >= 1

\* The rows at positions first .. last (0-based) of rows, in order.
RowsAt(rows, first, last) ==
    [i \in 1..Max(0, last - first + 1) |-> rows[first + i]]

\* C2: for integers page >= 1 and page_size >= 1 and every dataset,
\* get_page(page, page_size) returns exactly the rows at positions
\* (page-1)*page_size .. min(page*page_size, len(Dataset))-1 in load order,
\* and the empty list, without error, when the start position is at or past
\* the length of the dataset.
C2_GetPageReturnsSlice ==
    (IsGetPage /\ CallArgsValid /\ file # None) =>
        /\ result.exc = ""
        /\ __dataset # None
        /\ LET rows == Get(__dataset)
               start == (call.page.v - 1) * call.page_size.v
               stop == Min(call.page.v * call.page_size.v, Len(rows))
           IN  /\ result.value = RowsAt(rows, start, stop - 1)
               /\ (start >= Len(rows) => result.value = <<>>)

C2_Witness_PastTheEnd ==
    /\ IsGetPage /\ CallArgsValid
    /\ result.exc = ""
    /\ __dataset # None
    /\ Len(Get(__dataset)) > 0
    /\ (call.page.v - 1) * call.page_size.v >= Len(Get(__dataset))
    /\ result.value = <<>>

\* ----------------------------------------------------- claims: get_hyper

HyperReturned == IsGetHyper /\ CallArgsValid /\ result.exc = ""

\* C3 as stated: next_page is None if and only if page == total_pages.
C3_Original_NextPageNoneIffLast ==
    HyperReturned =>
        (result.value.next_page = None <=> call.page.v = result.value.total_pages)

\* C3 (amended): for page >= 1 and page_size >= 1 and every dataset, the
\* next_page field of get_hyper is None if and only if page >= total_pages,
\* and is page + 1 otherwise.
C3_NextPageNoneIffAtOrPastLast ==
    HyperReturned =>
        /\ (result.value.next_page = None <=> call.page.v >= result.value.total_pages)
        /\ (call.page.v < result.value.total_pages =>
                result.value.next_page = Some(call.page.v + 1))

C3_Witness_PastLastPage ==
    /\ HyperReturned
    /\ result.value.total_pages >= 1
    /\ call.page.v > result.value.total_pages
    /\ result.value.next_page = None

\* C4: for page >= 1 and page_size >= 1 and every dataset, the prev_page field
\* of get_hyper is None if and only if page == 1, and is page - 1 otherwise.
C4_PrevPageNoneIffFirst ==
    HyperReturned =>
        /\ (result.value.prev_page = None <=> call.page.v = 1)
        /\ (call.page.v # 1 => result.value.prev_page = Some(call.page.v - 1))

C4_Witness_SecondPage ==
    /\ HyperReturned
    /\ call.page.v = 2
    /\ result.value.prev_page = Some(1)

\* C5: for page >= 1 and page_size >= 1 and every dataset, the page_size field
\* of get_hyper is the number of rows in its data field, which is at most the
\* requested page_size.
C5_PageSizeIsActualCount ==
    HyperReturned =>
        /\ result.value.page_size = Len(result.value.data)
        /\ result.value.page_size <= call.page_size.v

C5_Witness_ShortLastPage ==
    /\ HyperReturned
    /\ result.value.data # <<>>
    /\ result.value.page_size = Len(result.value.data)
    /\ Len(result.value.data) < call.page_size.v

\* C7: every call of get_page or get_hyper with page < 1 or page_size < 1, or
\* with a page or page_size that is not an integer, raises AssertionError and
\* returns nothing; get_hyper with page_size = 0 raises AssertionError, not a
\* division error.
C7_InvalidArgsRaiseAssertionError ==
    ((IsGetPage \/ IsGetHyper) /\ ~CallArgsValid) =>
        /\ result.exc = "AssertionError"
        /\ result.value = <<>>

C7_Witness_HyperPageSizeZero ==
    /\ IsGetHyper
    /\ call.page = PyInt(1)
    /\ call.page_size = PyInt(0)
    /\ result.exc = "AssertionError"

\* --------------------------------------------------- claims: index_range

\* C10: for integers page >= 1 and page_size >= 1, index_range(page,
\* page_size) is the pair ((page-1)*page_size, page*page_size): start <= end,
\* end - start = page_size, and the end of page p is the start of page p + 1.
\* It holds of the helper of 0-simple_helper_function.py (the call made) and
\* of the index_range that get_page uses.
C10_IndexRangeBounds ==
    (call.op = "index_range" /\ CallArgsValid) =>
        LET p == call.page.v
            s == call.page_size.v
            start == result.value[1]
            end == result.value[2]
        IN  /\ start = (p - 1) * s
            /\ end = p * s
            /\ start <= end
            /\ end - start = s
            /\ index_range_helper(p + 1, s)[1] = end
            /\ index_range(p, s) = <<start, end>>
            /\ index_range(p + 1, s)[1] = end

C10_Witness_SecondPage ==
    /\ call.op = "index_range"
    /\ call.page.v = 2
    /\ call.page_size.v = 3
    /\ result.value = <<3, 6>>

\* ------------------------------------------------------- claims: dataset

\* The rows of a file after its header row.
RowsAfterHeader(lines) == [i \in 1..Max(0, Len(lines) - 1) |-> lines[i + 1]]

\* C6: once dataset() has loaded the file, every later call returns the rows
\* read by that first load (the header row discarded, the other rows in file
\* order) whatever has happened to the file since, and the file is not read
\* again.
C6_LoadIsCached ==
    /\ ~reread
    /\ (first_read # None =>
            __dataset = Some(RowsAfterHeader(Get(first_read))))
    /\ (call.op = "dataset" /\ result.exc = "" =>
            /\ first_read # None
            /\ result.value = RowsAfterHeader(Get(first_read)))

C6_Witness_LoadAfterFileChanged ==
    /\ call.op = "dataset"
    /\ result.exc = ""
    /\ first_read # None
    /\ file # None
    /\ file # first_read
    /\ RowsAfterHeader(Get(file)) # RowsAfterHeader(Get(first_read))
    /\ result.value = RowsAfterHeader(Get(first_read))
    /\ result.value # <<>>

\* ----------------------------------------------- claims: get_hyper_index

RECURSIVE Ascending(_)
\* The members of a finite set of integers, in ascending order.
Ascending(S) ==
    IF S = {}
    THEN <<>>
    ELSE LET least == CHOOSE x \in S : \A y \in S : x <= y
         IN  <<least>> \o Ascending(S \ {least})

\* The size of the index map's key domain: the keys it was built with.
KeyDomainSize == Min(Len(RowsAfterHeader(Get(file))), TruncateLimit)

\* The rows of the first up to n keys of map m that are >= index, ascending.
PageFrom(m, index, n) ==
    LET keys == Ascending({k \in DOMAIN m : k >= index})
    IN  [i \in 1..Min(n, Len(keys)) |-> m[keys[i]]]

IsGetHyperIndex == call.op = "get_hyper_index"

\* C1: for every index map and every deletion of keys from it,
\* get_hyper_index(index, page_size) returns as data the rows of the first up
\* to page_size keys that are still present and are >= index, in ascending
\* key order, skipping the deleted keys.
C1_HyperIndexSkipsDeletedKeys ==
    (/\ IsGetHyperIndex
     /\ __indexed_dataset # None
     /\ call.index.t = "int" /\ call.page_size.t = "int"
     /\ call.index.v >= 0 /\ call.index.v < KeyDomainSize
     /\ call.page_size.v >= 1) =>
        /\ result.exc = ""
        /\ result.value # None
        /\ Get(result.value).data =
                PageFrom(Get(__indexed_dataset), call.index.v, call.page_size.v)

\* C8: every call of get_hyper_index whose index is negative or is >= the
\* size of the index map's key domain raises AssertionError instead of
\* returning a value.
C8_HyperIndexRejectsOutOfDomain ==
    (/\ IsGetHyperIndex
     /\ call.index.t = "int"
     /\ (call.index.v < 0 \/ call.index.v >= KeyDomainSize)) =>
        result.exc = "AssertionError"

\* The key a row was loaded at.
KeyOf(row) == CHOOSE k \in 0..(Len(Get(__dataset)) - 1) : Get(__dataset)[k + 1] = row

\* C9: paging by feeding each result's next_index into the next call, while
\* keys are deleted between the calls, visits every row that is never deleted
\* exactly once and in ascending key order: every step returns a page whose
\* next_index is greater than every key returned so far, the rows collected
\* are in strictly ascending key order, and no row still present whose key is
\* below the cursor is missing from them.
C9_PagingVisitsSurvivorsOnce ==
    (call.op = "page_step" /\ __indexed_dataset # None) =>
        /\ result.exc = ""
        /\ result.value # None
        /\ cursor = Some(Get(result.value).next_index)
        /\ \A i \in 1..Len(visited) : KeyOf(visited[i]) < Get(cursor)
        /\ \A i, j \in 1..Len(visited) :
                i < j => KeyOf(visited[i]) < KeyOf(visited[j])
        /\ \A k \in DOMAIN Get(__indexed_dataset) :
                k < Get(cursor) =>
                    \E i \in 1..Len(visited) :
                        visited[i] = Get(__indexed_dataset)[k]

\* --------------------------------------------------- claims: total_pages

\* C11: for every dataset and page_size >= 1, the total_pages field of
\* get_hyper is ceil(len(Dataset) / page_size): the least integer n with
\* n * page_size >= len(Dataset), 0 for an empty dataset; and it is the same
\* for every page argument.
C11_TotalPagesIsCeiling ==
    HyperReturned =>
        LET n == Len(Get(__dataset))
            s == call.page_size.v
            t == result.value.total_pages
        IN  /\ t >= 0
            /\ t * s >= n
            /\ \A m \in 0..(t - 1) : m * s < n
            /\ (n = 0 => t = 0)
            /\ \A p \in 1..(MaxPage + 1) :
                    get_hyper(file, __dataset, PyInt(p), call.page_size)
                        .value.total_pages = t

C11_Witness_PartialLastPage ==
    /\ HyperReturned
    /\ Len(Get(__dataset)) = 3
    /\ call.page_size.v = 2
    /\ result.value.total_pages = 2

\* ----------------------------------------------- claims: indexed_dataset

\* The keys the index map is built with: 0 .. min(len(Dataset), 1000) - 1.
BuiltKeys(rows) == 0..(Min(Len(rows), TruncateLimit) - 1)

\* C12: the index map of indexed_dataset() is built once from the loaded
\* dataset and cached. The step that builds it gives it exactly the keys
\* 0 .. min(len(Dataset), 1000) - 1 with map[i] = Dataset[i]; a call made once
\* the map exists returns that map and leaves it as it is; and no step adds a
\* key, so a deleted key stays absent.
C12_IndexMapBuiltOnceAndCached ==
    [][/\ (__indexed_dataset = None /\ __indexed_dataset' # None) =>
            /\ __dataset' # None
            /\ DOMAIN Get(__indexed_dataset') = BuiltKeys(Get(__dataset'))
            /\ \A i \in DOMAIN Get(__indexed_dataset') :
                    Get(__indexed_dataset')[i] = Get(__dataset')[i + 1]
            /\ result'.value = Get(__indexed_dataset')
       /\ __indexed_dataset # None =>
            /\ \/ __indexed_dataset' = __indexed_dataset
               \/ /\ call'.op # "indexed_dataset"
                  /\ __indexed_dataset' # None
                  /\ DOMAIN Get(__indexed_dataset') \subseteq
                        DOMAIN Get(__indexed_dataset)
                  /\ \A i \in DOMAIN Get(__indexed_dataset') :
                        Get(__indexed_dataset')[i] = Get(__indexed_dataset)[i]
            /\ call'.op = "indexed_dataset" =>
                    /\ result'.exc = ""
                    /\ result'.value = Get(__indexed_dataset)
      ]_vars

C12_Witness_CallAfterDeletion ==
    /\ call.op = "indexed_dataset"
    /\ result.exc = ""
    /\ __indexed_dataset # None
    /\ Len(Get(__dataset)) > TruncateLimit
    /\ 1 \notin DOMAIN Get(__indexed_dataset)
    /\ (TruncateLimit - 1) \in DOMAIN Get(__indexed_dataset)
    /\ TruncateLimit \notin DOMAIN Get(__indexed_dataset)
    /\ result.value = Get(__indexed_dataset)

\* ------------------------------------------------------ claims: get_locale

Supported(l) == l \in {Some("en"), Some("fr")}

\* The user a request logs in as, read off the users table.
LoggedInUser(req) ==
    IF \E id \in 1..4 : req.login_as = Some(Digits[id + 1])
    THEN Some(users[CHOOSE id \in 1..4 : req.login_as = Some(Digits[id + 1])])
    ELSE None

UserLocaleOf(req) ==
    IF LoggedInUser(req) = None THEN None ELSE Get(LoggedInUser(req)).locale

\* C13: get_locale resolves the locale by strict precedence: the 'locale'
\* URL parameter if it is a supported language; otherwise the logged-in
\* user's locale if it is set and supported; otherwise the 'locale' request
\* header if supported; otherwise the best Accept-Language match. A missing or
\* unsupported value at one level never blocks a supported value below it, and
\* a locale returned by one of the first three levels is 'en' or 'fr'.
C13_LocalePrecedence ==
    call.op = "get_locale" =>
        LET url == Supported(request.locale_arg)
            usr == Supported(UserLocaleOf(request))
            hdr == Supported(request.header_locale)
        IN  /\ result.exc = ""
            /\ (url => result.value = request.locale_arg)
            /\ ((~url /\ usr) => result.value = UserLocaleOf(request))
            /\ ((~url /\ ~usr /\ hdr) => result.value = request.header_locale)
            /\ ((~url /\ ~usr /\ ~hdr) =>
                    result.value = best_match(request.accept_languages, LANGUAGES))
            /\ ((url \/ usr \/ hdr) => Supported(result.value))

C13_Witness_UnsupportedUserLocaleFallsThrough ==
    /\ call.op = "get_locale"
    /\ request.locale_arg = Some("kg")
    /\ g_user # None
    /\ Get(g_user).locale = Some("kg")
    /\ request.header_locale = Some("en")
    /\ request.accept_languages = <<"fr">>
    /\ result.value = Some("en")

\* ------------------------------------------------ claims: pages partition

\* get_page(p, page_size) on the server as it is
PageOf(p, page_size) == get_page(file, __dataset, PyInt(p), page_size).value

RECURSIVE PagesUpTo(_, _)
\* The pages 1 .. n, one after the other.
PagesUpTo(n, page_size) ==
    IF n <= 0
    THEN <<>>
    ELSE PagesUpTo(n - 1, page_size) \o PageOf(n, page_size)

\* C14: for every dataset and page_size >= 1, the pages get_page(1,
\* page_size) .. get_page(total_pages, page_size), in page order, make up the
\* whole dataset: every page before the last holds exactly page_size rows, the
\* last page is not empty, and every page past total_pages is empty.
C14_PagesPartitionDataset ==
    HyperReturned =>
        LET s == call.page_size
            t == result.value.total_pages
        IN  /\ PagesUpTo(t, s) = Get(__dataset)
            /\ \A p \in 1..(t - 1) : Len(PageOf(p, s)) = s.v
            /\ (t >= 1 => PageOf(t, s) # <<>>)
            /\ \A p \in (t + 1)..(t + MaxPage) : PageOf(p, s) = <<>>

C14_Witness_ShortLastPage ==
    /\ HyperReturned
    /\ Len(Get(__dataset)) = 3
    /\ call.page_size.v = 2
    /\ result.value.total_pages = 2
    /\ PageOf(1, call.page_size) \o PageOf(2, call.page_size) = Get(__dataset)
    /\ Len(PageOf(2, call.page_size)) = 1

====
